---- MODULE Spec2Model ----
(***************************************************************************)
(* A model of DiffusionFramework (src/diffusion.py): the sampling loop     *)
(* infer_one_batch, the training-epoch driver train_single_epoch, the      *)
(* evaluation-epoch driver evaluate_single_epoch, the sinks log_scalar and *)
(* log_visuals, and the epoch control loop main_training_loop.             *)
(*                                                                         *)
(* Floating-point values are pairs <<kind, v>>: <<"fin", n>> a finite      *)
(* number, <<"inf", 1>> / <<"inf", -1>> the infinities, <<"nan", 0>> NaN.  *)
(* Python's None is <<"none", 0>>.                                         *)
(***************************************************************************)
EXTENDS Integers, Sequences, FiniteSets, TLC

\* ------------------------------------------------------------------ bounds
MaxT == 3
NumPixels == 2
MaxBatches == 5
MaxLogEvery == 3
MaxEvery == 2
MaxEpochs == 4
NameEpochs == 12
MaxEvalBatches == 2
MaxSavers == 2
MaxLogCalls == 3

\* ------------------------------------------------------- float arithmetic
Fin(n) == <<"fin", n>>
NaN == <<"nan", 0>>
PosInf == <<"inf", 1>>
NegInf == <<"inf", -1>>
None == <<"none", 0>>

IsFin(a) == a[1] = "fin"
IsNaN(a) == a[1] = "nan"
IsInf(a) == a[1] = "inf"

Sign(n) == IF n > 0 THEN 1 ELSE IF n < 0 THEN -1 ELSE 0

\* IEEE-754 product: NaN propagates, inf * 0 is NaN
FMul(a, b) ==
    IF IsNaN(a) \/ IsNaN(b) THEN NaN
    ELSE IF IsInf(a) \/ IsInf(b)
         THEN IF Sign(a[2]) * Sign(b[2]) = 0 THEN NaN
              ELSE <<"inf", Sign(a[2]) * Sign(b[2])>>
         ELSE Fin(a[2] * b[2])

\* IEEE-754 sum: NaN propagates, inf + (-inf) is NaN
FAdd(a, b) ==
    IF IsNaN(a) \/ IsNaN(b) THEN NaN
    ELSE IF IsInf(a) /\ IsInf(b)
         THEN IF a[2] = b[2] THEN a ELSE NaN
         ELSE IF IsInf(a) THEN a
         ELSE IF IsInf(b) THEN b
         ELSE Fin(a[2] + b[2])

FNeg(a) == IF IsNaN(a) THEN NaN ELSE <<a[1], -a[2]>>

FSub(a, b) == FAdd(a, FNeg(b))

\* IEEE-754 comparison a <= b: false as soon as one side is NaN
FLeq(a, b) ==
    IF IsNaN(a) \/ IsNaN(b) THEN FALSE
    ELSE IF IsInf(a) THEN (a[2] < 0 \/ a = b)
    ELSE IF IsInf(b) THEN b[2] > 0
    ELSE a[2] <= b[2]

\* IEEE-754 comparison a == b: NaN equals nothing
FEq(a, b) == ~IsNaN(a) /\ ~IsNaN(b) /\ a = b

\* str(n) of a non-negative integer, as its sequence of characters
DigitChars == <<"0", "1", "2", "3", "4", "5", "6", "7", "8", "9">>

RECURSIVE Decimal(_)
Decimal(n) ==
    IF n < 10 THEN <<DigitChars[n + 1]>>
    ELSE Decimal(n \div 10) \o <<DigitChars[(n % 10) + 1]>>

\* ------------------------------------------------------------- the images
Pixels == 1..NumPixels

\* mask values as the arithmetic of infer_one_batch uses them: 1 unknown, 0 known
MaskValues == {Fin(0), Fin(1)}
CondValues == {Fin(0), Fin(1)}
\* torch.randn_like draws finite values
NoiseValues == {Fin(-1), Fin(2)}
\* what a model's refinement_step may return at a pixel
RefineValues == {Fin(3), NaN, PosInf}

VARIABLES
    cond_image, mask, inference_noise_schedule, training_noise_schedule,
    predicted_gt_image, infer_i, infer_pc, refine_calls, refine_input

\* refine_calls: the (t, alpha_t, gamma_t) of every refinement_step call so far;
\* refine_input: the image arguments of the latest call
infer_vars == <<cond_image, mask, inference_noise_schedule, training_noise_schedule,
                predicted_gt_image, infer_i, infer_pc, refine_calls, refine_input>>

\* a NoiseSchedule of length T: parallel arrays alphas, gammas (index t is t+1 here)
NoiseSchedule(owner, T) ==
    [alphas |-> [j \in 1..T |-> <<owner, "alpha", j - 1>>],
     gammas |-> [j \in 1..T |-> <<owner, "gamma", j - 1>>]]

ScheduleLen(s) == Len(s.alphas)

\* candidate*mask + cond_image*(1-mask), elementwise
Blend(candidate, cond, m) ==
    [p \in Pixels |->
        FAdd(FMul(candidate[p], m[p]), FMul(cond[p], FSub(Fin(1), m[p])))]

\* the schedule walked upwards: t = i
TimestepAscending(T, i) == i

\* t = len(self.inference_noise_schedule) - (i+1)
TimestepOf(T, i) == T - (i + 1)

\* no image assigned yet
NoImage == [p \in Pixels |-> None]

\* the image arguments of a refinement_step call: the working image (recorded as
\* the call's current image) and the conditioning image
RefineInput(working, cond) == [predicted_gt_image_t |-> working, cond_image |-> cond]

InitInfer ==
    /\ cond_image \in [Pixels -> CondValues]
    /\ mask \in [Pixels -> MaskValues]
    /\ \E T \in 1..MaxT : inference_noise_schedule = NoiseSchedule("inference", T)
    /\ training_noise_schedule = NoiseSchedule("training", MaxT)
    /\ predicted_gt_image = NoImage
    /\ infer_i = 0
    /\ infer_pc = "start"
    /\ refine_calls = << >>
    /\ refine_input = RefineInput(NoImage, NoImage)

\* predicted_gt_image = torch.randn_like(cond_image)*mask + cond_image*(1-mask)
InferStart ==
    /\ infer_pc = "start"
    /\ \E noise \in [Pixels -> NoiseValues] :
          predicted_gt_image' = Blend(noise, cond_image, mask)
    /\ infer_i' = 0
    /\ infer_pc' = "loop"
    /\ UNCHANGED <<cond_image, mask, inference_noise_schedule,
                   training_noise_schedule, refine_calls, refine_input>>

\* one iteration of the loop over range(len(self.inference_noise_schedule))
InferStep ==
    /\ infer_pc = "loop"
    /\ infer_i < ScheduleLen(inference_noise_schedule)
    /\ LET t == TimestepOf(ScheduleLen(inference_noise_schedule), infer_i)
       IN /\ refine_calls' = Append(refine_calls,
                [t |-> t,
                 alpha_t |-> inference_noise_schedule.alphas[t + 1],
                 gamma_t |-> inference_noise_schedule.gammas[t + 1]])
          /\ refine_input' = RefineInput(predicted_gt_image, cond_image)
          /\ \E refined \in [Pixels -> RefineValues] :
                predicted_gt_image' = Blend(refined, cond_image, mask)
    /\ infer_i' = infer_i + 1
    /\ UNCHANGED <<cond_image, mask, inference_noise_schedule,
                   training_noise_schedule, infer_pc>>

\* return predicted_gt_image
InferReturn ==
    /\ infer_pc = "loop"
    /\ infer_i = ScheduleLen(inference_noise_schedule)
    /\ infer_pc' = "done"
    /\ UNCHANGED <<cond_image, mask, inference_noise_schedule,
                   training_noise_schedule, predicted_gt_image, infer_i,
                   refine_calls, refine_input>>

\* --------------------------------------------------- train_single_epoch
VARIABLES
    epoch_number, log_every, num_batches, summary_writer,
    train_pc, batch_i, running_loss, current_loss, mean_loss, train_result,
    batch_losses, log_lines, scalar_calls, writer_scalars

\* num_batches: len(self.training_dataloader); summary_writer: TRUE iff one is
\* configured; batch_losses: what train_one_batch returned for each batch of the
\* epoch in progress; log_lines: the log file; scalar_calls: the calls of
\* log_scalar; writer_scalars: the calls of summary_writer.add_scalar
train_vars == <<epoch_number, log_every, num_batches, summary_writer,
                train_pc, batch_i, running_loss, current_loss, mean_loss,
                train_result, batch_losses, log_lines, scalar_calls, writer_scalars>>

\* the per-batch losses train_one_batch may return
LossValues == {1, 2}
\* the losses drawn inside a whole run of main_training_loop
RunLossValues == {1}

\* a local variable that was never assigned
Unbound == <<"unbound", 0, 1>>
\* the quotient num/den of a float division, kept exact
Ratio(num, den) == <<"ratio", num, den>>
RatioEq(a, b) == a[1] = "ratio" /\ b[1] = "ratio" /\ a[2] * b[3] = b[2] * a[3]

\* one line of the log file
LogLine(text, epoch, i, value) == [text |-> text, epoch |-> epoch, i |-> i, value |-> value]

\* one call of log_scalar / add_scalar
Scalar(series, y, x) == [series |-> series, y |-> y, x |-> x]

\* log_scalar forwarding without looking at the summary writer
LogScalarAlways(writer, calls, series, y, x) == Append(calls, Scalar(series, y, x))

\* log_scalar: forwards to the summary writer iff one is configured
LogScalar(writer, calls, series, y, x) ==
    IF writer THEN Append(calls, Scalar(series, y, x)) ELSE calls

\* 'train/'+self.loss_function_name
TrainSeries == <<"train/", "loss_function_name">>

\* the test on the zero-based batch index
IsLogIterationZeroBased(i, every) == (i - 1) % every = 0

\* if i % log_every == 0
IsLogIteration(i, every) == i % every = 0

\* the index restarting in every epoch
GlobalIndexPerEpoch(epoch, n, i) == i

\* global_index = (epoch_number-1)*len(self.training_dataloader) + i
GlobalIndex(epoch, n, i) == (epoch - 1) * n + i

\* running_loss = 0. ; current_loss = 0. ; for i, data in enumerate(pbar, start=1)
TrainStart ==
    /\ train_pc = "call"
    /\ running_loss' = 0
    /\ current_loss' = 0
    /\ batch_i' = 0
    /\ batch_losses' = << >>
    /\ mean_loss' = Unbound
    /\ train_pc' = "loop"
    /\ UNCHANGED <<epoch_number, log_every, num_batches, summary_writer,
                   train_result, log_lines, scalar_calls, writer_scalars>>

\* one iteration of the loop over the training dataloader
TrainBatch(losses) ==
    /\ train_pc = "loop"
    /\ batch_i < num_batches
    /\ \E loss \in losses :
         LET i == batch_i + 1
             running == running_loss + loss
             mean == Ratio(running, log_every)
             index == GlobalIndex(epoch_number, num_batches, i)
         IN /\ batch_i' = i
            /\ current_loss' = loss
            /\ batch_losses' = Append(batch_losses, loss)
            /\ IF IsLogIteration(i, log_every)
               THEN /\ mean_loss' = mean
                    /\ log_lines' = Append(log_lines,
                          LogLine("Mean loss", epoch_number, i, mean))
                    /\ scalar_calls' = Append(scalar_calls,
                          Scalar(TrainSeries, mean, index))
                    /\ writer_scalars' = LogScalar(summary_writer, writer_scalars,
                          TrainSeries, mean, index)
                    /\ running_loss' = 0
               ELSE /\ running_loss' = running
                    /\ UNCHANGED <<mean_loss, log_lines, scalar_calls, writer_scalars>>
    /\ UNCHANGED <<epoch_number, log_every, num_batches, summary_writer,
                   train_pc, train_result>>

\* return mean_loss: an UnboundLocalError when no logging iteration assigned it
TrainReturn ==
    /\ train_pc = "loop"
    /\ batch_i = num_batches
    /\ IF mean_loss = Unbound
       THEN /\ train_pc' = "raised"
            /\ UNCHANGED train_result
       ELSE /\ train_pc' = "returned"
            /\ train_result' = mean_loss
    /\ UNCHANGED <<epoch_number, log_every, num_batches, summary_writer,
                   batch_i, running_loss, current_loss, mean_loss,
                   batch_losses, log_lines, scalar_calls, writer_scalars>>

IdleTrain ==
    /\ epoch_number = 1
    /\ log_every = 1
    /\ num_batches = 0
    /\ summary_writer = FALSE
    /\ train_pc = "idle"
    /\ batch_i = 0
    /\ running_loss = 0
    /\ current_loss = 0
    /\ mean_loss = Unbound
    /\ train_result = Unbound
    /\ batch_losses = << >>
    /\ log_lines = << >>
    /\ scalar_calls = << >>
    /\ writer_scalars = << >>

InitTrain ==
    /\ epoch_number \in 1..MaxEpochs
    /\ log_every \in 1..MaxLogEvery
    /\ num_batches \in 0..MaxBatches
    /\ summary_writer \in BOOLEAN
    /\ train_pc = "call"
    /\ batch_i = 0
    /\ running_loss = 0
    /\ current_loss = 0
    /\ mean_loss = Unbound
    /\ train_result = Unbound
    /\ batch_losses = << >>
    /\ log_lines = << >>
    /\ scalar_calls = << >>
    /\ writer_scalars = << >>

IdleInfer ==
    /\ cond_image = NoImage
    /\ mask = NoImage
    /\ inference_noise_schedule = NoiseSchedule("inference", 1)
    /\ training_noise_schedule = NoiseSchedule("training", 1)
    /\ predicted_gt_image = NoImage
    /\ infer_i = 0
    /\ infer_pc = "idle"
    /\ refine_calls = << >>
    /\ refine_input = RefineInput(NoImage, NoImage)

\* ------------------------------------- log_visuals, evaluate_single_epoch
VARIABLES
    evaluation_metrics, num_eval_batches, save_functions,
    eval_pc, eval_i, all_metric_results, metric_results, mean_metric_results,
    batch_results, visual_calls, writer_images, saver_calls

\* evaluation_metrics: the names of the configured metrics, in order;
\* num_eval_batches: the length of the evaluation dataloader; save_functions:
\* the registered savers; batch_results: what evaluate_one_batch returned for
\* each batch so far; visual_calls: the calls of log_visuals; writer_images: the
\* calls of summary_writer.add_image; saver_calls: the calls of the savers
eval_vars == <<evaluation_metrics, num_eval_batches, save_functions,
               eval_pc, eval_i, all_metric_results, metric_results,
               mean_metric_results, batch_results, visual_calls, writer_images,
               saver_calls>>

\* the metric sets an engine may be configured with
MetricSets == {<< >>, <<"m1">>, <<"m1", "m2">>}

MetricNameSet(ms) == {ms[k] : k \in 1..Len(ms)}

\* the per-sample results a metric may produce
MetricValues(m) == IF m = "m1" THEN {Fin(1), Fin(3), NaN} ELSE {Fin(10), NaN}

\* the number of samples of a batch
BatchSizes == {1, 2}

\* evaluate_one_batch: one collection of per-sample results per metric name
BatchMetricResults(names, size) ==
    {f \in [names -> [1..size -> {Fin(1), Fin(3), Fin(10), NaN}]] :
        \A m \in names : \A i \in 1..size : f[m][i] \in MetricValues(m)}

\* the n registered savers, in registration order
Savers(n) == [k \in 1..n |-> k]

NotNaN(a) == ~IsNaN(a)

RECURSIVE SumValues(_)
SumValues(seq) ==
    IF Len(seq) = 0 THEN 0 ELSE Head(seq)[2] + SumValues(Tail(seq))

\* np.mean: the mean of all entries, NaN as soon as one entry is NaN
PlainMean(seq) ==
    IF Len(seq) = 0 \/ Len(SelectSeq(seq, NotNaN)) < Len(seq) THEN NaN
    ELSE Ratio(SumValues(seq), Len(seq))

\* np.nanmean: the mean of the entries that are not NaN, NaN when there is none
NanMean(seq) ==
    LET kept == SelectSeq(seq, NotNaN)
    IN IF Len(kept) = 0 THEN NaN ELSE Ratio(SumValues(kept), Len(kept))

\* the three images log_visuals emits, in order, with their tags
VisualRoles ==
    <<[tag |-> "Cond", image |-> "cond_image", title |-> "/Conditioned"],
      [tag |-> "Pred", image |-> "predicted_gt_image", title |-> "/Predicted"],
      [tag |-> "GT", image |-> "gt_image", title |-> "/Ground Truth"]>>

\* name = '{}_{}_{:d}'.format(series_name, '{}', index)
NameTemplate(series, index) == <<series, "_", "{}", "_">> \o Decimal(index)

\* name.format(tag)
FormatName(template, tag) ==
    [k \in 1..Len(template) |-> IF template[k] = "{}" THEN tag ELSE template[k]]

\* the three add_image calls, made iff a summary writer is configured
AddImages(writer, calls, series, index) ==
    IF writer
    THEN calls \o [r \in 1..3 |->
            [tag |-> <<series, VisualRoles[r].title>>,
             image |-> VisualRoles[r].image, index |-> index]]
    ELSE calls

\* the three calls of one saver
SaverCallsOf(fn, series, index) ==
    [r \in 1..3 |->
        [fn |-> fn, image |-> VisualRoles[r].image, dir |-> "image_base_path",
         name |-> FormatName(NameTemplate(series, index), VisualRoles[r].tag)]]

\* for writer in self.save_functions: ...
RECURSIVE AllSaverCalls(_, _, _, _)
AllSaverCalls(fns, k, series, index) ==
    IF k = 0 THEN << >>
    ELSE AllSaverCalls(fns, k - 1, series, index) \o SaverCallsOf(fns[k], series, index)

\* log_visuals(series_name, index, cond_image, predicted_gt_image, gt_image, mask)
LogVisuals(series, index) ==
    /\ visual_calls' = Append(visual_calls, [series |-> series, index |-> index])
    /\ writer_images' = AddImages(summary_writer, writer_images, series, index)
    /\ saver_calls' = saver_calls \o
          AllSaverCalls(save_functions, Len(save_functions), series, index)

\* a local variable of evaluate_single_epoch that no loop iteration assigned
UnboundResults == [bound |-> FALSE, value |-> << >>]

\* self.model.eval() ; all_metric_results = OrderedDict((metric.name, []) ...)
EvalStart ==
    /\ eval_pc = "call"
    /\ all_metric_results' = [m \in MetricNameSet(evaluation_metrics) |-> << >>]
    /\ metric_results' = UnboundResults
    /\ eval_i' = 0
    /\ batch_results' = << >>
    /\ eval_pc' = "loop"
    /\ UNCHANGED <<evaluation_metrics, num_eval_batches, save_functions,
                   mean_metric_results, visual_calls, writer_images, saver_calls>>

\* one iteration of the loop over the evaluation dataloader
EvalBatch ==
    /\ eval_pc = "loop"
    /\ eval_i < num_eval_batches
    /\ \E size \in BatchSizes :
         \E res \in BatchMetricResults(MetricNameSet(evaluation_metrics), size) :
            /\ metric_results' = [bound |-> TRUE, value |-> res]
            /\ all_metric_results' =
                  [m \in DOMAIN all_metric_results |->
                      IF m \in DOMAIN res THEN all_metric_results[m] \o res[m]
                      ELSE all_metric_results[m]]
            /\ batch_results' = Append(batch_results, res)
    /\ eval_i' = eval_i + 1
    /\ UNCHANGED <<evaluation_metrics, num_eval_batches, save_functions, eval_pc,
                   mean_metric_results, visual_calls, writer_images, saver_calls>>

\* the means over 'for key in metric_results', log_visuals, return: an
\* UnboundLocalError when the dataloader was empty
EvalReturn ==
    /\ eval_pc = "loop"
    /\ eval_i = num_eval_batches
    /\ IF metric_results.bound
       THEN /\ mean_metric_results' =
                  [key \in DOMAIN metric_results.value |->
                      NanMean(all_metric_results[key])]
            /\ LogVisuals("Evaluation", epoch_number)
            /\ eval_pc' = "returned"
       ELSE /\ eval_pc' = "raised"
            /\ UNCHANGED <<mean_metric_results, visual_calls, writer_images,
                           saver_calls>>
    /\ UNCHANGED <<evaluation_metrics, num_eval_batches, save_functions, eval_i,
                   all_metric_results, metric_results, batch_results>>

\* a call of log_scalar on its own
LogScalarCall ==
    /\ Len(scalar_calls) + Len(visual_calls) < MaxLogCalls
    /\ \E series \in {TrainSeries, <<"Evaluation/", "All_Metrics_RMS">>},
          x \in 1..2 :
          /\ scalar_calls' = Append(scalar_calls, Scalar(series, Fin(1), x))
          /\ writer_scalars' = LogScalar(summary_writer, writer_scalars,
                                         series, Fin(1), x)
    /\ UNCHANGED <<epoch_number, log_every, num_batches, summary_writer, train_pc,
                   batch_i, running_loss, current_loss, mean_loss, train_result,
                   batch_losses, log_lines>>

\* a call of log_visuals on its own
LogVisualsCall ==
    /\ Len(scalar_calls) + Len(visual_calls) < MaxLogCalls
    /\ \E series \in {"Evaluation", "Inference"}, index \in {1, 12} :
          LogVisuals(series, index)
    /\ UNCHANGED <<evaluation_metrics, num_eval_batches, save_functions, eval_pc,
                   eval_i, all_metric_results, metric_results,
                   mean_metric_results, batch_results>>

IdleEvalState ==
    /\ eval_i = 0
    /\ all_metric_results = << >>
    /\ metric_results = UnboundResults
    /\ mean_metric_results = << >>
    /\ batch_results = << >>
    /\ visual_calls = << >>
    /\ writer_images = << >>
    /\ saver_calls = << >>

IdleEval ==
    /\ evaluation_metrics = << >>
    /\ num_eval_batches = 0
    /\ save_functions = << >>
    /\ eval_pc = "idle"
    /\ IdleEvalState

InitEval ==
    /\ evaluation_metrics \in MetricSets
    /\ num_eval_batches \in 0..MaxEvalBatches
    /\ save_functions = Savers(1)
    /\ eval_pc = "call"
    /\ IdleEvalState

InitLog ==
    /\ evaluation_metrics = << >>
    /\ num_eval_batches = 0
    /\ \E n \in 0..MaxSavers : save_functions = Savers(n)
    /\ eval_pc = "idle"
    /\ IdleEvalState

\* the training driver at rest, with or without a summary writer
IdleTrainAnyWriter ==
    /\ epoch_number \in 1..2
    /\ log_every = 1
    /\ num_batches = 0
    /\ summary_writer \in BOOLEAN
    /\ train_pc = "idle"
    /\ batch_i = 0
    /\ running_loss = 0
    /\ current_loss = 0
    /\ mean_loss = Unbound
    /\ train_result = Unbound
    /\ batch_losses = << >>
    /\ log_lines = << >>
    /\ scalar_calls = << >>
    /\ writer_scalars = << >>

\* ---------------------------------------------------- main_training_loop
VARIABLES
    pc, eval_every, save_every, best_rms_metrics, saved, rms_metrics,
    saves, sched_steps, error, epoch_begun, prev_best, epoch_trace

\* saves: the weight writes that completed (save calls that returned);
\* sched_steps: the number of scheduler.step() calls; error: the call that raised;
\* epoch_begun: the epoch number logged by 'Begin epoch'; prev_best: the best RMS
\* before the latest evaluation; epoch_trace: the steps of the epoch in progress
main_vars == <<pc, eval_every, save_every, best_rms_metrics, saved, rms_metrics,
               saves, sched_steps, error, epoch_begun, prev_best, epoch_trace>>

vars == <<infer_vars, train_vars, eval_vars, main_vars>>

train_config == <<log_every, num_batches, summary_writer>>
train_locals == <<batch_i, running_loss, current_loss, mean_loss, train_result,
                  batch_losses>>

\* the configured evaluation metrics, in order
MetricNames == <<"m1", "m2">>

MeanResults(a, b) == [m \in {"m1", "m2"} |-> IF m = "m1" THEN a ELSE b]

\* the mean metric results evaluate_single_epoch may return
EvalResults == {MeanResults(Fin(1), Fin(1)), MeanResults(Fin(1), Fin(7)),
                MeanResults(NaN, Fin(1))}

RECURSIVE SumSquares(_, _)
SumSquares(res, k) ==
    IF k = 0 THEN Fin(0)
    ELSE FAdd(SumSquares(res, k - 1), FMul(res[MetricNames[k]], res[MetricNames[k]]))

\* the exact square root and quotient (the inputs are chosen to have one)
ExactSqrt(n) == CHOOSE r \in 0..n : r * r = n
ExactDiv(n, d) == CHOOSE q \in 0..n : q * d = n

\* np.sqrt(np.mean(tuple(mean_metric_results[name]**2 for name in mean_metric_results)))
Rms(res) ==
    LET total == SumSquares(res, Len(MetricNames))
    IN IF IsFin(total)
       THEN Fin(ExactSqrt(ExactDiv(total[2], Len(MetricNames))))
       ELSE total

\* the strict comparison rms_metrics < best_rms_metrics
IsStrictlyBetter(rms, best) == FLeq(rms, best) /\ ~FEq(rms, best)

\* if rms_metrics <= best_rms_metrics
IsNewBest(rms, best) == FLeq(rms, best)

\* if best_rms_metrics is None: best_rms_metrics = rms_metrics
InitialBest(best, rms) == IF best = None THEN rms ELSE best

\* the evaluation test on a zero-based epoch number
IsEvalEpochZeroBased(epoch, every) == (epoch - 1) % every = 0

\* the evaluation branch taken in every epoch
AlwaysEvalEpoch(epoch, every) == TRUE

\* if epoch_number % eval_every == 0
IsEvalEpoch(epoch, every) == epoch % every = 0

\* the save test on a zero-based epoch number
IsSaveEpochZeroBased(epoch, every) == (epoch - 1) % every = 0

\* if epoch_number % save_every == 0
IsSaveEpoch(epoch, every) == epoch % every = 0

\* the save branch ignoring the saved flag
NeverSkipPlainSave(alreadySaved) == FALSE

\* if saved: the model has already been saved this epoch
SkipPlainSave(alreadySaved) == alreadySaved

\* _best = '_BEST' if best else ''
BestSuffix(best) == IF best THEN <<"_", "B", "E", "S", "T">> ELSE << >>

\* the name without the '_BEST' suffix
SaveNameWithoutBest(epoch, best) == <<"m", "o", "d", "e", "l", "_">> \o Decimal(epoch)

\* save: name = 'model_{}{}'.format(epoch_number, _best), as its characters
SaveName(epoch, best) ==
    <<"m", "o", "d", "e", "l", "_">> \o Decimal(epoch) \o BestSuffix(best)

Save(epoch, best) == [epoch |-> epoch, best |-> best, name |-> SaveName(epoch, best)]

\* the scheduler left alone
SchedulerNotStepped(steps) == steps

\* self.scheduler.step()
SchedulerStep(steps) == steps + 1

\* the epoch counted before the exception leaves the loop
RaiseAfterAdvance(where) ==
    /\ pc' = "halted"
    /\ error' = where
    /\ epoch_number' = epoch_number + 1
    /\ UNCHANGED sched_steps

\* an exception leaves the while loop: nothing after the raising call runs
Raise(where) ==
    /\ pc' = "halted"
    /\ error' = where
    /\ UNCHANGED <<epoch_number, sched_steps>>

Text(t) == LogLine(t, 0, 0, None)

InTrace(step) == \E k \in 1..Len(epoch_trace) : epoch_trace[k] = step

IdleMain ==
    /\ pc = "idle"
    /\ eval_every = 1
    /\ save_every = 1
    /\ best_rms_metrics = None
    /\ saved = FALSE
    /\ rms_metrics = None
    /\ saves = << >>
    /\ sched_steps = 0
    /\ error = "none"
    /\ epoch_begun = 0
    /\ prev_best = None
    /\ epoch_trace = << >>

\* epoch_number = 1 ; best_rms_metrics = None
InitMain ==
    /\ epoch_number = 1
    /\ log_every \in 1..MaxLogEvery
    /\ num_batches \in 0..MaxBatches
    /\ summary_writer \in BOOLEAN
    /\ train_pc = "idle"
    /\ batch_i = 0
    /\ running_loss = 0
    /\ current_loss = 0
    /\ mean_loss = Unbound
    /\ train_result = Unbound
    /\ batch_losses = << >>
    /\ log_lines = << >>
    /\ scalar_calls = << >>
    /\ writer_scalars = << >>
    /\ pc = "begin"
    /\ eval_every \in 1..MaxEvery
    /\ save_every \in 1..MaxEvery
    /\ best_rms_metrics = None
    /\ saved = FALSE
    /\ rms_metrics = None
    /\ saves = << >>
    /\ sched_steps = 0
    /\ error = "none"
    /\ epoch_begun = 0
    /\ prev_best = None
    /\ epoch_trace = << >>

\* top of the while loop: the two log lines, then the call of train_single_epoch
BeginEpoch ==
    /\ pc = "begin"
    /\ epoch_number <= MaxEpochs
    /\ log_lines' = log_lines \o <<LogLine("Begin epoch", epoch_number, 0, None),
                                  Text("Beginning training...")>>
    /\ epoch_begun' = epoch_number
    /\ epoch_trace' = << >>
    /\ train_pc' = "call"
    /\ pc' = "train"
    /\ UNCHANGED <<epoch_number, train_config, train_locals, scalar_calls,
                   writer_scalars, eval_every, save_every, best_rms_metrics, saved,
                   rms_metrics, saves, sched_steps, error, prev_best>>

\* train_single_epoch came back: saved = False, then the evaluation test
TrainDone ==
    /\ pc = "train"
    /\ \/ /\ train_pc = "raised"
          /\ Raise("train")
          /\ UNCHANGED <<saved, epoch_trace>>
       \/ /\ train_pc = "returned"
          /\ saved' = FALSE
          /\ epoch_trace' = Append(epoch_trace, "train")
          /\ pc' = IF IsEvalEpoch(epoch_number, eval_every)
                   THEN "evaluate" ELSE "save_check"
          /\ UNCHANGED <<epoch_number, sched_steps, error>>
    /\ train_pc' = "idle"
    /\ UNCHANGED <<train_config, train_locals, log_lines, scalar_calls,
                   writer_scalars, eval_every, save_every, best_rms_metrics,
                   rms_metrics, saves, epoch_begun, prev_best>>

\* the evaluation branch up to the call of save(epoch_number, best=True)
Evaluate ==
    /\ pc = "evaluate"
    /\ \/ /\ Raise("evaluate")
          /\ log_lines' = Append(log_lines,
                Text("This is an evaluation epoch. Beginning evalution..."))
          /\ UNCHANGED <<scalar_calls, writer_scalars, best_rms_metrics,
                         rms_metrics, prev_best, epoch_trace>>
       \/ \E res \in EvalResults :
            LET rms == Rms(res)
                best == InitialBest(best_rms_metrics, rms)
                better == IsNewBest(rms, best)
                metricScalars == [k \in 1..Len(MetricNames) |->
                    Scalar(<<"Evaluation/", MetricNames[k]>>, res[MetricNames[k]],
                           epoch_number)]
                rmsScalar == Scalar(<<"Evaluation/", "All_Metrics_RMS">>, rms,
                                    epoch_number)
            IN /\ rms_metrics' = rms
               /\ prev_best' = best_rms_metrics
               /\ log_lines' = log_lines \o
                    <<Text("This is an evaluation epoch. Beginning evalution..."),
                      Text("Mean evaluation results follow:"),
                      Text("pformat(mean_metric_results)"),
                      LogLine("The RMS value is", 0, 0, rms)>> \o
                    (IF better
                     THEN <<Text("This is the new best epoch!!"),
                            Text("Saving new best model...")>>
                     ELSE << >>)
               /\ scalar_calls' = scalar_calls \o metricScalars \o <<rmsScalar>>
               /\ writer_scalars' = IF summary_writer
                                    THEN writer_scalars \o metricScalars \o <<rmsScalar>>
                                    ELSE writer_scalars
               /\ best_rms_metrics' = IF better THEN rms ELSE best
               /\ epoch_trace' = Append(epoch_trace, "evaluate")
               /\ pc' = IF better THEN "save_best" ELSE "save_check"
               /\ UNCHANGED <<epoch_number, sched_steps, error>>
    /\ UNCHANGED <<train_config, train_pc, train_locals, eval_every, save_every,
                   saved, saves, epoch_begun>>

\* self.save(epoch_number, best=True) ; saved = True
SaveBest ==
    /\ pc = "save_best"
    /\ \/ /\ Raise("save")
          /\ UNCHANGED <<saves, saved, epoch_trace>>
       \/ /\ saves' = Append(saves, Save(epoch_number, TRUE))
          /\ saved' = TRUE
          /\ epoch_trace' = Append(epoch_trace, "save_best")
          /\ pc' = "save_check"
          /\ UNCHANGED <<epoch_number, sched_steps, error>>
    /\ UNCHANGED <<train_config, train_pc, train_locals, log_lines, scalar_calls,
                   writer_scalars, eval_every, save_every, best_rms_metrics,
                   rms_metrics, epoch_begun, prev_best>>

\* the save branch: if epoch_number % save_every == 0: ...
SaveCheck ==
    /\ pc = "save_check"
    /\ IF IsSaveEpoch(epoch_number, save_every)
       THEN IF SkipPlainSave(saved)
            THEN /\ log_lines' = log_lines \o
                      <<Text("This is a save epoch."),
                        Text("However, the model has already been saved this epoch. Resuming training.")>>
                 /\ epoch_trace' = Append(epoch_trace, "save_skipped")
                 /\ pc' = "advance"
                 /\ UNCHANGED <<saves, epoch_number, sched_steps, error>>
            ELSE \/ /\ log_lines' = log_lines \o
                         <<Text("This is a save epoch."), Text("Saving model..."),
                           Text("Resuming training.")>>
                    /\ saves' = Append(saves, Save(epoch_number, FALSE))
                    /\ epoch_trace' = Append(epoch_trace, "save_plain")
                    /\ pc' = "advance"
                    /\ UNCHANGED <<epoch_number, sched_steps, error>>
                 \/ /\ log_lines' = log_lines \o
                         <<Text("This is a save epoch."), Text("Saving model...")>>
                    /\ Raise("save")
                    /\ UNCHANGED <<saves, epoch_trace>>
       ELSE /\ epoch_trace' = Append(epoch_trace, "no_save")
            /\ pc' = "advance"
            /\ UNCHANGED <<log_lines, saves, epoch_number, sched_steps, error>>
    /\ UNCHANGED <<train_config, train_pc, train_locals, scalar_calls,
                   writer_scalars, eval_every, save_every, best_rms_metrics, saved,
                   rms_metrics, epoch_begun, prev_best>>

\* epoch_number += 1 ; self.scheduler.step()
Advance ==
    /\ pc = "advance"
    /\ epoch_number' = epoch_number + 1
    /\ sched_steps' = SchedulerStep(sched_steps)
    /\ epoch_trace' = Append(epoch_trace, "scheduler_step")
    /\ pc' = "begin"
    /\ UNCHANGED <<train_config, train_pc, train_locals, log_lines, scalar_calls,
                   writer_scalars, eval_every, save_every, best_rms_metrics, saved,
                   rms_metrics, saves, error, epoch_begun, prev_best>>

\* ------------------------------------------------------- specifications
Init == IdleInfer /\ IdleEval /\ InitMain

Next ==
    \/ BeginEpoch /\ UNCHANGED <<infer_vars, eval_vars>>
    \/ TrainStart /\ UNCHANGED <<infer_vars, eval_vars, main_vars>>
    \/ TrainBatch(RunLossValues) /\ UNCHANGED <<infer_vars, eval_vars, main_vars>>
    \/ TrainReturn /\ UNCHANGED <<infer_vars, eval_vars, main_vars>>
    \/ TrainDone /\ UNCHANGED <<infer_vars, eval_vars>>
    \/ Evaluate /\ UNCHANGED <<infer_vars, eval_vars>>
    \/ SaveBest /\ UNCHANGED <<infer_vars, eval_vars>>
    \/ SaveCheck /\ UNCHANGED <<infer_vars, eval_vars>>
    \/ Advance /\ UNCHANGED <<infer_vars, eval_vars>>

Spec == Init /\ [][Next]_vars

InitInferSpec == InitInfer /\ IdleTrain /\ IdleEval /\ IdleMain

NextInfer ==
    \/ InferStart /\ UNCHANGED <<train_vars, eval_vars, main_vars>>
    \/ InferStep /\ UNCHANGED <<train_vars, eval_vars, main_vars>>
    \/ InferReturn /\ UNCHANGED <<train_vars, eval_vars, main_vars>>

SpecInfer == InitInferSpec /\ [][NextInfer]_vars

InitTrainSpec == IdleInfer /\ InitTrain /\ IdleEval /\ IdleMain

NextTrain ==
    \/ TrainStart /\ UNCHANGED <<infer_vars, eval_vars, main_vars>>
    \/ TrainBatch(LossValues) /\ UNCHANGED <<infer_vars, eval_vars, main_vars>>
    \/ TrainReturn /\ UNCHANGED <<infer_vars, eval_vars, main_vars>>

SpecTrain == InitTrainSpec /\ [][NextTrain]_vars

InitEvalSpec == IdleInfer /\ IdleTrainAnyWriter /\ InitEval /\ IdleMain

NextEval ==
    \/ EvalStart /\ UNCHANGED <<infer_vars, train_vars, main_vars>>
    \/ EvalBatch /\ UNCHANGED <<infer_vars, train_vars, main_vars>>
    \/ EvalReturn /\ UNCHANGED <<infer_vars, train_vars, main_vars>>

SpecEval == InitEvalSpec /\ [][NextEval]_vars

InitLogSpec == IdleInfer /\ IdleTrainAnyWriter /\ InitLog /\ IdleMain

NextLog ==
    \/ LogScalarCall /\ UNCHANGED <<infer_vars, eval_vars, main_vars>>
    \/ LogVisualsCall /\ UNCHANGED <<infer_vars, train_vars, main_vars>>

SpecLog == InitLogSpec /\ [][NextLog]_vars

\* ------------------------------------------------------------ properties
IsMeanLine(l) == l.text = "Mean loss"
IsTrainScalar(c) == c.series = TrainSeries

\* the 'Mean loss' lines of the log and the training-loss calls of log_scalar
MeanLines == SelectSeq(log_lines, IsMeanLine)
TrainScalars == SelectSeq(scalar_calls, IsTrainScalar)

RECURSIVE SumLosses(_, _, _)
SumLosses(seq, from, to) ==
    IF from > to THEN 0 ELSE seq[from] + SumLosses(seq, from + 1, to)

SavesOfEpoch(e) == {k \in 1..Len(saves) : saves[k].epoch = e}

Evaluated == InTrace("evaluate") /\ pc \in {"save_check", "advance"}

\* C1: in infer_one_batch the working image equals the conditioning image at
\* every position where mask is false, after initialization, after every loop
\* iteration and in the result, whatever refinement_step returned there
C1_KnownRegionInvariant ==
    infer_pc \in {"loop", "done"} =>
        \A p \in Pixels : mask[p] = Fin(0) => predicted_gt_image[p] = cond_image[p]

C2_Calls ==
    LET T == ScheduleLen(inference_noise_schedule)
    IN /\ Len(refine_calls) <= T
       /\ infer_pc = "done" => Len(refine_calls) = T
       /\ \A k \in 1..Len(refine_calls) :
            /\ refine_calls[k].t = T - k
            /\ refine_calls[k].alpha_t = <<"inference", "alpha", T - k>>
            /\ refine_calls[k].gamma_t = <<"inference", "gamma", T - k>>

\* C2: for an inference schedule of length T, refinement_step is called exactly
\* T times, the k-th call with alphas[T-k] and gammas[T-k] of the inference
\* schedule, and each call receives the working image the previous step left
C2_ScheduleConsumption ==
    [][/\ C2_Calls'
       /\ Len(refine_calls') = Len(refine_calls) + 1 =>
            /\ refine_input'.predicted_gt_image_t = predicted_gt_image
            /\ refine_input'.cond_image = cond_image]_vars

C2_Witness ==
    /\ infer_pc = "done"
    /\ Len(refine_calls) >= 3
    /\ \E p \in Pixels : mask[p] = Fin(1)

\* C3: an epoch that was saved as best during evaluation and is a save epoch
\* performs no plain save: its only weight write is the best one and the log
\* records the skip; no epoch performs more than one weight write
C3_NoDoubleSave ==
    /\ \A e \in 1..epoch_number : Cardinality(SavesOfEpoch(e)) <= 1
    /\ (pc = "advance" /\ saved /\ epoch_number % save_every = 0) =>
          /\ \E k \in 1..Len(saves) : saves[k] = Save(epoch_number, TRUE)
          /\ Cardinality(SavesOfEpoch(epoch_number)) = 1
          /\ log_lines[Len(log_lines)].text =
               "However, the model has already been saved this epoch. Resuming training."

C3_Witness ==
    /\ pc = "advance"
    /\ saved
    /\ save_every = 2
    /\ eval_every = 2
    /\ epoch_number = 2

\* C4: an evaluation epoch is a new best (best-designated save, epoch marked as
\* saved) exactly when new_rms <= best_rms, a tie included; when new_rms >
\* best_rms there is no best save and the best RMS is unchanged
C4_TieIsNewBest ==
    Evaluated =>
        LET best == IF prev_best = None THEN rms_metrics ELSE prev_best
        IN /\ saved <=> FLeq(rms_metrics, best)
           /\ FEq(rms_metrics, best) => saved
           /\ saved =>
                /\ saves[Len(saves)] = Save(epoch_number, TRUE)
                /\ best_rms_metrics = rms_metrics
           /\ ~saved =>
                /\ best_rms_metrics = best
                /\ ~\E k \in 1..Len(saves) : saves[k] = Save(epoch_number, TRUE)

C4_Witness ==
    /\ Evaluated
    /\ prev_best # None
    /\ FEq(rms_metrics, prev_best)
    /\ saved
    /\ pc = "save_check"

\* C5: on the first evaluation epoch, whatever RMS the evaluation produces (a
\* NaN included), that RMS becomes the best and the epoch is an improvement: a
\* best-designated save is performed and the epoch is marked as saved
C5_FirstEvaluationIsBest ==
    (Evaluated /\ prev_best = None) =>
        /\ best_rms_metrics = rms_metrics
        /\ saved
        /\ \E k \in 1..Len(saves) : saves[k] = Save(epoch_number, TRUE)

\* C6: every completed epoch calls scheduler.step() exactly once, after its
\* training, its evaluation and its save decision; the number of scheduler
\* steps equals the number of completed epochs, epoch_number - 1
C6_SchedulerOncePerEpoch ==
    /\ sched_steps = epoch_number - 1
    /\ pc \in {"train", "evaluate", "save_best", "save_check", "advance", "halted"}
          => ~InTrace("scheduler_step")
    /\ (pc = "begin" /\ epoch_number > 1) =>
          LET n == Len(epoch_trace)
          IN /\ n >= 3
             /\ epoch_trace[1] = "train"
             /\ epoch_trace[n] = "scheduler_step"
             /\ epoch_trace[n - 1] \in {"save_skipped", "save_plain", "no_save"}
             /\ \A k \in 1..(n - 1) : epoch_trace[k] # "scheduler_step"
             /\ \A k \in 2..(n - 2) : epoch_trace[k] \in {"evaluate", "save_best"}

C6_Witness ==
    /\ pc = "begin"
    /\ epoch_number = 3
    /\ eval_every = 2
    /\ save_every = 2
    /\ sched_steps = 2

\* C7: when evaluation or a weight write raises, the loop halts without
\* incrementing epoch_number and without calling scheduler.step() for that
\* epoch; no error path leaves the counter past an epoch that did not complete
C7_ErrorDoesNotAdvance ==
    pc = "halted" =>
        /\ epoch_number = epoch_begun
        /\ sched_steps = epoch_begun - 1
        /\ ~InTrace("scheduler_step")

C7_Witness ==
    /\ pc = "halted"
    /\ error = "save"
    /\ epoch_begun = 2
    /\ InTrace("evaluate")

\* C8: for N batches and a positive log_every, train_single_epoch emits exactly
\* floor(N / log_every) logging events (a log line and a scalar each), at batches
\* log_every, 2*log_every, ...; each reports the arithmetic mean of the
\* log_every losses since the previous boundary
C8_LoggingEvents ==
    train_pc \in {"loop", "returned", "raised"} =>
        /\ train_pc \in {"returned", "raised"} => batch_i = num_batches
        /\ Len(MeanLines) = batch_i \div log_every
        /\ Len(TrainScalars) = batch_i \div log_every
        /\ writer_scalars = IF summary_writer THEN TrainScalars ELSE << >>
        /\ \A k \in 1..Len(MeanLines) :
             /\ MeanLines[k].i = k * log_every
             /\ MeanLines[k].epoch = epoch_number
             /\ RatioEq(MeanLines[k].value,
                        Ratio(SumLosses(batch_losses, (k - 1) * log_every + 1,
                                        k * log_every), log_every))
             /\ TrainScalars[k].y = MeanLines[k].value

C8_Witness ==
    /\ train_pc = "returned"
    /\ num_batches = 5
    /\ log_every = 2
    /\ Len(MeanLines) = 2
    /\ batch_losses[3] # batch_losses[4]

FinalIntervalLen ==
    IF num_batches % log_every = 0 THEN log_every ELSE num_batches % log_every

\* C9: for every N >= 1 and positive log_every, train_single_epoch returns the
\* mean loss of the final logging interval, also when that interval is partial
C9_ReturnsFinalIntervalMean ==
    (train_pc \in {"returned", "raised"} /\ num_batches >= 1) =>
        /\ train_pc = "returned"
        /\ RatioEq(train_result,
                   Ratio(SumLosses(batch_losses, num_batches - FinalIntervalLen + 1,
                                   num_batches), FinalIntervalLen))

\* C10: across a run the step index of the training-loss scalar is
\* (epoch-1)*batches_per_epoch + batch_index and strictly increases from each
\* emitted point to the next, within an epoch and across epochs
C10_GlobalIndexMonotone ==
    /\ Len(TrainScalars) = Len(MeanLines)
    /\ \A k \in 1..Len(TrainScalars) :
          TrainScalars[k].x = (MeanLines[k].epoch - 1) * num_batches + MeanLines[k].i
    /\ \A k \in 1..(Len(TrainScalars) - 1) : TrainScalars[k].x < TrainScalars[k + 1].x
    /\ summary_writer =>
          SelectSeq(writer_scalars, IsTrainScalar) = TrainScalars

C10_Witness ==
    /\ num_batches = 3
    /\ log_every = 2
    /\ epoch_number = 3
    /\ Len(TrainScalars) = 3
    /\ summary_writer

\* the steps of the SAVING phase in epoch_trace
SavePhase == {"save_skipped", "save_plain"}
InSavePhase == \E k \in 1..Len(epoch_trace) : epoch_trace[k] \in SavePhase

\* the epoch that began last has run all its phases
EpochComplete == pc = "advance" \/ (pc = "begin" /\ epoch_number > 1)

\* C11: in each epoch the phases run in the order TRAINING, EVALUATING, SAVING,
\* advance: training first, evaluation iff epoch mod eval_every = 0, the save
\* step iff epoch mod save_every = 0 and never before the evaluation, and no
\* phase of epoch n+1 before epoch n has advanced
C11_PhaseOrder ==
    /\ pc \in {"train", "evaluate", "save_best", "save_check", "advance", "halted"} =>
          /\ epoch_begun = epoch_number
          /\ sched_steps = epoch_number - 1
    /\ Len(epoch_trace) >= 1 => epoch_trace[1] = "train"
    /\ InTrace("evaluate") =>
          /\ epoch_begun % eval_every = 0
          /\ epoch_trace[2] = "evaluate"
    /\ InSavePhase => epoch_begun % save_every = 0
    /\ \A j, k \in 1..Len(epoch_trace) :
          (epoch_trace[j] \in SavePhase /\ epoch_trace[k] \in {"train", "evaluate"})
             => k < j
    /\ EpochComplete =>
          /\ InTrace("train")
          /\ InTrace("evaluate") <=> epoch_begun % eval_every = 0
          /\ InSavePhase <=> epoch_begun % save_every = 0

C11_Witness ==
    /\ pc = "begin"
    /\ epoch_number = 3
    /\ eval_every = 2
    /\ save_every = 1
    /\ epoch_trace = <<"train", "evaluate", "save_plain", "scheduler_step">>

\* C13: the best RMS is unset at the start of a run and changes only inside the
\* evaluation branch: an epoch with epoch mod eval_every # 0 leaves it as it
\* was, and neither training nor saving modifies it
C13_BestOnlyInEvaluation ==
    /\ best_rms_metrics = None
    /\ [][best_rms_metrics' # best_rms_metrics =>
            /\ pc = "evaluate"
            /\ epoch_number % eval_every = 0
            /\ epoch_number' = epoch_number]_vars

C13_Witness ==
    /\ pc = "advance"
    /\ epoch_number = 3
    /\ eval_every = 2
    /\ save_every = 1
    /\ best_rms_metrics = Fin(1)
    /\ InTrace("save_plain")

\* C14: the epoch counter starts at 1 and grows by one per completed epoch, and
\* the loop has no terminal state: as long as every collaborator call returns,
\* the run never stops, so every epoch n is eventually begun
C14_NoTerminalState ==
    /\ epoch_number >= 1
    /\ sched_steps = epoch_number - 1
    /\ pc = "halted" => error \in {"evaluate", "save"}

\* the epoch that began last was a new best: new_rms <= best_rms
WasNewBest ==
    /\ InTrace("evaluate")
    /\ FLeq(rms_metrics, IF prev_best = None THEN rms_metrics ELSE prev_best)

\* C17: every completed save epoch (epoch mod save_every = 0) has exactly one
\* weight write, the best-designated one if the epoch was a new best and the
\* plain one otherwise; a completed epoch that is neither a save epoch nor a new
\* best has no weight write
C17_SaveCadence ==
    EpochComplete =>
        LET e == epoch_begun
        IN /\ e % save_every = 0 =>
                /\ Cardinality(SavesOfEpoch(e)) = 1
                /\ \A k \in SavesOfEpoch(e) : saves[k] = Save(e, WasNewBest)
           /\ (e % save_every # 0 /\ ~WasNewBest) => SavesOfEpoch(e) = {}

C17_Witness ==
    /\ pc = "advance"
    /\ epoch_number = 2
    /\ eval_every = 1
    /\ save_every = 2
    /\ ~saved
    /\ saves[Len(saves)] = Save(2, FALSE)

IsRmsScalar(c) == c.series = <<"Evaluation/", "All_Metrics_RMS">>

\* the RMS of every evaluation so far (y) with its epoch (x), as passed to log_scalar
RmsHistory == SelectSeq(scalar_calls, IsRmsScalar)

\* C18: once an evaluation has run, the best RMS is the minimum of the RMS
\* values of all evaluation epochs so far, and an evaluation epoch got a
\* best-designated save iff its RMS is <= the RMS of every earlier evaluation
C18_BestIsMinimum ==
    LET h == RmsHistory
    IN /\ Len(h) > 0 =>
            /\ \E k \in 1..Len(h) : best_rms_metrics = h[k].y
            /\ \A j \in 1..Len(h) : FLeq(best_rms_metrics, h[j].y)
       /\ \A k \in 1..Len(h) :
            (k < Len(h) \/ pc \in {"save_check", "advance", "begin"}) =>
               ((\E n \in 1..Len(saves) : saves[n] = Save(h[k].x, TRUE))
                  <=> \A j \in 1..(k - 1) : FLeq(h[k].y, h[j].y))

\* C19: the best RMS is never ahead of what was persisted: at every epoch
\* boundary and wherever the run halted, a set best RMS belongs to an epoch whose
\* best-designated write completed; a failing best write leaves the best RMS
\* at its value before that epoch
C19_BestNeverAheadOfPersisted ==
    /\ (pc \in {"begin", "halted"} /\ best_rms_metrics # None) =>
          \E n \in 1..Len(saves), j \in 1..Len(RmsHistory) :
             /\ saves[n].best
             /\ RmsHistory[j].x = saves[n].epoch
             /\ RmsHistory[j].y = best_rms_metrics
    /\ (pc = "halted" /\ error = "save" /\ Len(epoch_trace) = 2
           /\ epoch_trace[2] = "evaluate" /\ ~saved /\ WasNewBest) =>
          best_rms_metrics = prev_best

\* save names distinct (epoch, best) pairs differently, for epochs 1..NameEpochs
NamesInjective ==
    \A e1, e2 \in 1..NameEpochs, b1, b2 \in BOOLEAN :
        SaveName(e1, b1) = SaveName(e2, b2) => (e1 = e2 /\ b1 = b2)

\* the artifacts in the models directory written by this run
Artifacts == {saves[k].name : k \in 1..Len(saves)}

\* C20: the artifact name is 'model_<epoch>' or 'model_<epoch>_BEST', distinct
\* (epoch, best) pairs give distinct names, and within one run all weight writes
\* go to pairwise distinct names: no write overwrites an earlier artifact
C20_DistinctArtifactNames ==
    /\ NamesInjective
    /\ Cardinality(Artifacts) = Len(saves)
    /\ \A k \in 1..Len(saves) :
          LET name == saves[k].name
              n == Len(name)
          IN /\ SubSeq(name, 1, 6) = <<"m", "o", "d", "e", "l", "_">>
             /\ saves[k].best <=> (n > 5 /\ SubSeq(name, n - 4, n) = <<"_", "B", "E", "S", "T">>)
             /\ saves[k].epoch <= 9 => name[7] = DigitChars[saves[k].epoch + 1]
             /\ \A j \in 1..(k - 1) : saves[j].name # name

C20_Witness ==
    /\ pc = "begin"
    /\ Len(saves) >= 3
    /\ saves[1].best
    /\ \E k \in 1..Len(saves) : ~saves[k].best

RECURSIVE SumAt(_, _)
SumAt(vals, S) ==
    IF S = {} THEN 0
    ELSE LET i == CHOOSE j \in S : TRUE
         IN vals[i][2] + SumAt(vals, S \ {i})

\* C12: evaluate_single_epoch reduces each metric's accumulated results to the
\* mean of its non-NaN entries ([1.0, NaN, 3.0] gives 2.0); a metric whose
\* entries are all NaN yields NaN, for that metric only
C12_NanTolerantMean ==
    eval_pc = "returned" =>
        /\ DOMAIN mean_metric_results = MetricNameSet(evaluation_metrics)
        /\ \A m \in DOMAIN mean_metric_results :
             LET vals == all_metric_results[m]
                 kept == {i \in 1..Len(vals) : vals[i][1] # "nan"}
                 mean == mean_metric_results[m]
             IN IF kept = {}
                THEN mean[1] = "nan"
                ELSE /\ mean[1] = "ratio"
                     /\ mean[2] = SumAt(vals, kept)
                     /\ mean[3] = Cardinality(kept)

C12_Witness ==
    /\ eval_pc = "returned"
    /\ evaluation_metrics = <<"m1", "m2">>
    /\ all_metric_results["m1"] = <<Fin(1), NaN, Fin(3)>>
    /\ RatioEq(mean_metric_results["m1"], Ratio(2, 1))
    /\ all_metric_results["m2"] = <<NaN, NaN, NaN>>
    /\ IsNaN(mean_metric_results["m2"])

RECURSIVE ResultsOf(_, _)
ResultsOf(m, b) ==
    IF b = 0 THEN << >> ELSE ResultsOf(m, b - 1) \o batch_results[b][m]

\* C15: after evaluate_single_epoch over B >= 0 batches each configured metric's
\* collection holds exactly the per-sample results that metric produced for all
\* B batches, and the returned mapping has one mean per configured metric name
C15_GroupedByMetric ==
    eval_pc \in {"returned", "raised"} =>
        /\ eval_pc = "returned"
        /\ Len(batch_results) = num_eval_batches
        /\ DOMAIN all_metric_results = MetricNameSet(evaluation_metrics)
        /\ DOMAIN mean_metric_results = MetricNameSet(evaluation_metrics)
        /\ \A m \in MetricNameSet(evaluation_metrics) :
              all_metric_results[m] = ResultsOf(m, num_eval_batches)

ExpectedIndex(index) == IF index = 1 THEN <<"1">> ELSE <<"1", "2">>
ExpectedTag(r) == IF r = 1 THEN "Cond" ELSE IF r = 2 THEN "Pred" ELSE "GT"
ExpectedImage(r) ==
    IF r = 1 THEN "cond_image" ELSE IF r = 2 THEN "predicted_gt_image" ELSE "gt_image"

\* C16: log_scalar makes no sink call without a summary writer and exactly one
\* add_scalar call with one; log_visuals makes no call with neither a writer nor
\* a saver, and calls each of the k savers three times, once per role, in
\* registration order, under the name '<series>_<Cond|Pred|GT>_<index>'
C16_SinkCalls ==
    LET k == Len(save_functions)
    IN /\ writer_scalars = IF summary_writer THEN scalar_calls ELSE << >>
       /\ Len(writer_images) = IF summary_writer THEN 3 * Len(visual_calls) ELSE 0
       /\ Len(saver_calls) = 3 * k * Len(visual_calls)
       /\ \A c \in 1..Len(visual_calls), f \in 1..k, r \in 1..3 :
            LET call == saver_calls[(c - 1) * 3 * k + (f - 1) * 3 + r]
            IN /\ call.fn = save_functions[f]
               /\ call.image = ExpectedImage(r)
               /\ call.name = <<visual_calls[c].series, "_", ExpectedTag(r), "_">>
                                 \o ExpectedIndex(visual_calls[c].index)

C16_Witness ==
    /\ ~summary_writer
    /\ Len(save_functions) = 2
    /\ Len(scalar_calls) = 1
    /\ Len(visual_calls) = 2
    /\ visual_calls[2].index = 12
    /\ Len(saver_calls) = 12

====
